---- MODULE Spec2Model ----
(***************************************************************************)
(* The documentation site theo-matzavinos/docs: the site configuration     *)
(* (astro.config.mjs), the content collection (src/content/docs) and the   *)
(* programs the pages document (NgRx Store, ComponentStore).               *)
(*                                                                         *)
(* Three state machines share the variables:                               *)
(*   SpecSite   the generator reads the content files and renders the      *)
(*              sidebar, then a reader opens pages and clicks links;       *)
(*   SpecStore  the Store of store/updating-state and store/side-effects:  *)
(*              dispatch, reducers, effects;                               *)
(*   SpecCS     MyComponentStore of component-store/updating-state.        *)
(***************************************************************************)
EXTENDS Integers, Sequences, FiniteSets, TLC

VARIABLES
  config,     \* site: the configuration object the generator evaluated
  loaded,     \* site: names of the content files the generator has read
  nav,        \* site: sidebar entries rendered so far, in order
  loc,        \* site: the reader's location, [route, anchor], or NoLoc
  via,        \* site: how loc was reached: "none", "open", "sidebar", "content"
  heap,       \* store: the objects allocated so far (a reference is an index)
  store,      \* store: [game, auth], references to the current state values
  replica,    \* store: a second store given the same actions
  dispatched, \* store: every action dispatched so far, in order
  reduced,    \* store: how many of them the reducers have applied
  delivered,  \* store: how many of them the effects have received
  observed,   \* store: what the effects saw, one record per handled action
  inFlight,   \* store: API calls started by effects and not answered yet
  cs,         \* component store: the state of MyComponentStore
  csCall,     \* component store: the most recent call and its argument
  csError,    \* component store: the error the most recent call threw, or "none"
  sel,        \* selectors: what a subscriber's selectors last emitted
  step,       \* selectors: what the selectors did in the most recent step
  csEffect,   \* component store: the loadPage effect and its most recent answer
  workspace,  \* project: the files written and the imports between libraries
  fx,         \* store: the effects of the two SomeEffects classes
  myComponent, \* component store: the component that uses the store
  signals,    \* signals: the values of the writable signals
  conditionalCount, \* signals: the computed signal of that name
  timerEffect \* signals: the effect that starts a timer in each run

siteVars == <<config, loaded, nav, loc, via>>
storeVars == <<heap, store, replica, dispatched, reduced, delivered, observed,
               inFlight>>
csVars == <<cs, csCall, csError>>
selVars == <<sel, step>>
effectVars == <<csEffect>>
libVars == <<workspace>>
fxVars == <<fx>>
componentVars == <<myComponent>>
signalVars == <<signals, conditionalCount, timerEffect>>
vars == <<siteVars, storeVars, csVars, selVars, effectVars, libVars, fxVars,
          componentVars, signalVars>>
nonSignalVars ==
  <<siteVars, storeVars, csVars, selVars, effectVars, libVars, fxVars,
    componentVars>>

\* What the steps of one part of the model leave alone.
nonSiteVars ==
  <<storeVars, csVars, selVars, effectVars, libVars, fxVars, componentVars,
    signalVars>>
nonStoreVars ==
  <<siteVars, csVars, selVars, effectVars, libVars, fxVars, componentVars,
    signalVars>>
nonCsVars ==
  <<siteVars, storeVars, libVars, fxVars, componentVars, signalVars>>
nonLibVars ==
  <<siteVars, storeVars, csVars, selVars, effectVars, fxVars, componentVars,
    signalVars>>
nonFxVars ==
  <<siteVars, storeVars, csVars, selVars, effectVars, libVars, componentVars,
    signalVars>>

----------------------------------------------------------------------------
(* Site configuration: astro.config.mjs                                    *)

site == "https://theo-matzavinos.github.io"

\* base: "/docs", as path segments
base == <<"docs">>

\* The links are written "store/actions" in the configuration; they are kept
\* here as their path segments.
StoreItems ==
  <<[label |-> "Introduction", link |-> <<"store">>],
    [label |-> "Actions", link |-> <<"store", "actions">>],
    [label |-> "Reading state", link |-> <<"store", "reading-state">>],
    [label |-> "Updating state", link |-> <<"store", "updating-state">>],
    [label |-> "Using features", link |-> <<"store", "using-features">>],
    [label |-> "Side effects", link |-> <<"store", "side-effects">>]>>

ComponentStoreItemsIntroductionOfStore ==
  <<[label |-> "Introduction", link |-> <<"store">>],
    [label |-> "Reading state", link |-> <<"component-store", "reading-state">>],
    [label |-> "Updating state", link |-> <<"component-store", "updating-state">>],
    [label |-> "Side effects", link |-> <<"component-store", "side-effects">>]>>

ComponentStoreItems ==
  <<[label |-> "Introduction", link |-> <<"component-store">>],
    [label |-> "Reading state", link |-> <<"component-store", "reading-state">>],
    [label |-> "Updating state", link |-> <<"component-store", "updating-state">>],
    [label |-> "Side effects", link |-> <<"component-store", "side-effects">>]>>

SidebarMissingLabel ==
  <<[items |-> StoreItems],
    [label |-> "Component Store", items |-> ComponentStoreItems]>>

sidebar ==
  <<[label |-> "Store", items |-> StoreItems],
    [label |-> "Component Store", items |-> ComponentStoreItems]>>

\* The shape of a sidebar entry, by the keys it carries.
EntryKind(e) ==
  IF DOMAIN e = {"label", "link"} THEN "link"
  ELSE IF DOMAIN e = {"label", "autogenerate"} THEN "autogenerate"
  ELSE IF DOMAIN e = {"label", "items"} THEN "group"
  ELSE "other"

\* The entries of a sidebar tree in the order they are rendered (a group, then
\* its items), each with its nesting depth.
RECURSIVE Flatten(_, _)
Flatten(entries, depth) ==
  IF entries = <<>> THEN <<>>
  ELSE LET e == Head(entries)
           row == [depth |-> depth,
                   keys |-> DOMAIN e,
                   kind |-> EntryKind(e),
                   label |-> IF "label" \in DOMAIN e THEN e.label ELSE "",
                   link |-> IF "link" \in DOMAIN e THEN e.link ELSE <<>>]
       IN <<row>>
          \o (IF "items" \in DOMAIN e THEN Flatten(e.items, depth + 1) ELSE <<>>)
          \o Flatten(Tail(entries), depth)

SidebarEntries == Flatten(sidebar, 0)

defineConfigPerBuild ==
  [site |-> site,
   base |-> base,
   integrations |->
     <<[name |-> "starlight",
        title |-> "Docs",
        social |-> [github |-> "https://github.com/theo-matzavinos/docs"],
        sidebar |-> IF loaded = {} THEN sidebar
                    ELSE <<sidebar[2], sidebar[1]>>]>>,
   image |-> [service |-> [entrypoint |-> "astro/assets/services/sharp"]]]

\* export default defineConfig({...}): the object the configuration module
\* evaluates to. It is written as a literal and reads nothing.
defineConfig ==
  [site |-> site,
   base |-> base,
   integrations |->
     <<[name |-> "starlight",
        title |-> "Docs",
        social |-> [github |-> "https://github.com/theo-matzavinos/docs"],
        sidebar |-> sidebar]>>,
   image |-> [service |-> [entrypoint |-> "astro/assets/services/sharp"]]]

\* The sidebar tree of a configuration: that of its starlight integration.
SidebarOf(c) == c.integrations[1].sidebar

----------------------------------------------------------------------------
(* The content collection: src/content/docs                                *)
(*                                                                         *)
(* A content file is kept as what the generator reads from it: its place   *)
(* in the collection (dir, name), its front-matter blocks (the --- fenced  *)
(* blocks outside code fences, with their first and last line and the keys *)
(* they define), its headings (as words, spaces and punctuation marks) and *)
(* its internal links (the path before # as segments, the anchor after     *)
(* it). Links to other sites (https://...) are not internal links.         *)

\* src/content/docs/store/using-features.mdx
UsingFeaturesMdx ==
  [file |-> "store/using-features.mdx",
   dir |-> <<"store">>, name |-> "using-features",
   frontMatter |-> <<[first |-> 1, last |-> 5, keys |-> {"title", "description", "template"}],
                     [first |-> 192, last |-> 196, keys |-> {"title", "description", "template"}],
                     [first |-> 371, last |-> 375, keys |-> {"title", "description", "template"}]>>,
   headings |-> {<<"Creating", " ", "features">>,
                 <<"Registering", " ", "features">>,
                 <<"Using", " ", "features">>,
                 <<"Tradeoffs">>,
                 <<"Store", ".", "select", "(", ")">>,
                 <<"Selectors">>,
                 <<"createFeatureSelector">>,
                 <<"createSelector">>,
                 <<"ViewModel", " ", "pattern">>,
                 <<"selectSignal">>,
                 <<"createAction">>,
                 <<"createActionGroup">>,
                 <<"Guidelines">>},
   links |-> {[line |-> 9, path |-> <<"..", "reading-state">>, anchor |-> ""],
              [line |-> 9, path |-> <<"..", "updating-state">>, anchor |-> "registering-reducers"],
              [line |-> 9, path |-> <<"..", "reading-state">>, anchor |-> ""],
              [line |-> 230, path |-> <<"..", "updating-state">>, anchor |-> "registering-reducers"],
              [line |-> 355, path |-> <<"..", "..", "angular", "signals">>, anchor |-> ""]}]

\* src/content/docs/component-store/index.mdx
CsIndexMdx ==
  [file |-> "component-store/index.mdx",
   dir |-> <<"component-store">>, name |-> "index",
   frontMatter |-> <<[first |-> 1, last |-> 5, keys |-> {"title", "description", "template"}],
                     [first |-> 49, last |-> 53, keys |-> {"title", "description", "template"}]>>,
   headings |-> {<<"How", " ", "to", " ", "instantiate">>,
                 <<"effect">>,
                 <<"tapResponse">>,
                 <<"Calling", " ", "effects", " ", "without", " ", "parameters">>,
                 <<"Using", " ", "values", " ", "from", " ", "state">>},
   links |-> {[line |-> 210, path |-> <<"..", "..", "store", "side-effects">>, anchor |-> "concatLatestFrom"]}]

\* src/content/docs/component-store/reading-state.mdx
CsReadingStateMdx ==
  [file |-> "component-store/reading-state.mdx",
   dir |-> <<"component-store">>, name |-> "reading-state",
   frontMatter |-> <<[first |-> 1, last |-> 5, keys |-> {"title", "description", "template"}]>>,
   headings |-> {<<"ComponentStore", ".", "state", "$">>,
                 <<"ComponentStore", ".", "select", "(", ")">>,
                 <<"Selector", " ", "value", " ", "equality">>,
                 <<"Selecting", " ", "state", " ", "properties">>,
                 <<"Computing", " ", "derived", " ", "values">>,
                 <<"ViewModel", " ", "pattern">>,
                 <<"Debounce">>,
                 <<"selectSignal">>},
   links |-> {[line |-> 288, path |-> <<"..", "..", "angular", "signals">>, anchor |-> ""]}]

\* src/content/docs/component-store/updating-state.mdx
\* (line 219 also holds [[Updating state]] and [[Running side effects]], which
\* Markdown renders as plain text, not as links)
CsUpdatingStateMdx ==
  [file |-> "component-store/updating-state.mdx",
   dir |-> <<"component-store">>, name |-> "updating-state",
   frontMatter |-> <<[first |-> 1, last |-> 5, keys |-> {"title", "description", "template"}],
                     [first |-> 177, last |-> 181, keys |-> {"title", "description", "template"}]>>,
   headings |-> {<<"setState">>,
                 <<"updater">>,
                 <<"patchState">>,
                 <<"What", " ", "it", " ", "is">>,
                 <<"How", " ", "to", " ", "instantiate">>},
   links |-> {[line |-> 11, path |-> <<"component-store", "reading-state">>, anchor |-> "selector-value-equality"],
              [line |-> 140, path |-> <<>>, anchor |-> "setstate"],
              [line |-> 219, path |-> <<"component-store", "reading-state">>, anchor |-> ""]}]

\* src/content/docs/angular/standalone.mdx
StandaloneMdx ==
  [file |-> "angular/standalone.mdx",
   dir |-> <<"angular">>, name |-> "standalone",
   frontMatter |-> <<[first |-> 1, last |-> 5, keys |-> {"title", "description", "template"}],
                     [first |-> 181, last |-> 185, keys |-> {"title", "description", "template"}],
                     [first |-> 729, last |-> 733, keys |-> {"title", "description", "template"}]>>,
   headings |-> {<<"Authoring", " ", "standalone", " ", "components", ",", " ", "directives", " ", "and", " ", "pipes">>,
                 <<"AppModule", " ", "replacement">>,
                 <<"inject", "(", ")">>,
                 <<"Routing">>,
                 <<"Lazy-loading">>,
                 <<"Providing", " ", "services", " ", "to", " ", "a", " ", "subset", " ", "of", " ", "routes">>,
                 <<"Functional", " ", "guards">>,
                 <<"Introduction">>,
                 <<"Project", " ", "structure">>,
                 <<"Astro", " ", "components">>,
                 <<"Component", " ", "structure">>,
                 <<"Component", " ", "Script">>,
                 <<"Component", " ", "Template">>,
                 <<"Component", " ", "Props">>,
                 <<"Slots">>,
                 <<"Named", " ", "slots">>,
                 <<"Fallback", " ", "content", " ", "for", " ", "slots">>,
                 <<"Transfering", " ", "slots">>,
                 <<"Layouts">>,
                 <<"Pages">>,
                 <<"Angular">>,
                 <<"Adding", " ", "providers">>,
                 <<"Limitations">>,
                 <<"Astro", " ", "Template", " ", "Directives">>,
                 <<"Common", " ", "Directives">>,
                 <<"class", ":", "list">>,
                 <<"set", ":", "html">>,
                 <<"Client", " ", "Directives">>,
                 <<"client", ":", "load">>,
                 <<"client", ":", "idle">>,
                 <<"client", ":", "visible">>,
                 <<"client", ":", "media">>,
                 <<"client", ":", "only">>,
                 <<"setState">>,
                 <<"updater">>,
                 <<"patchState">>},
   links |-> {[line |-> 156, path |-> <<>>, anchor |-> "inject()"],
              [line |-> 256, path |-> <<>>, anchor |-> "component-script"],
              [line |-> 257, path |-> <<>>, anchor |-> "directives"],
              [line |-> 293, path |-> <<>>, anchor |-> "component-script"],
              [line |-> 564, path |-> <<>>, anchor |-> "client-directives"],
              [line |-> 737, path |-> <<"component-store", "Reading%20state">>, anchor |-> "Selector%20value%20equality"],
              [line |-> 883, path |-> <<"setState">>, anchor |-> ""]}]

\* unnamed/part_000, the "Angular signals" page. Its file name is not recorded;
\* the pages that link to it address it as ../../angular/signals.
Part000 ==
  [file |-> "unnamed/part_000",
   dir |-> <<"angular">>, name |-> "signals",
   frontMatter |-> <<[first |-> 1, last |-> 5, keys |-> {"title", "description", "template"}]>>,
   headings |-> {<<"What", " ", "are", " ", "signals", "?">>,
                 <<"Writable", " ", "signals">>,
                 <<"Computed", " ", "signals">>,
                 <<"Computed", " ", "signal", " ", "dependencies">>,
                 <<"Effects">>,
                 <<"Use", " ", "cases", " ", "for", " ", "effects">>,
                 <<"Advanced", " ", "topics">>,
                 <<"Signal", " ", "equality", " ", "function">>,
                 <<"Reading", " ", "without", " ", "tracking", " ", "dependencies">>,
                 <<"Effect", " ", "cleanup", " ", "functions">>,
                 <<"Destroying", " ", "effects">>,
                 <<"Interop", " ", "with", " ", "rxjs">>,
                 <<"toSignal">>,
                 <<"toObservable">>,
                 <<"Signals", " ", "vs", " ", "observables">>,
                 <<"Sync", " ", "vs", " ", "async">>,
                 <<"Dependencies">>,
                 <<"Subscriptions">>,
                 <<"Choosing", " ", "the", " ", "right", " ", "tool", " ", "for", " ", "the", " ", "job">>},
   links |-> {}]

\* unnamed/part_001, the "Query" page. Its file name is not recorded and no
\* page links to it; it is placed at the root of the collection under its title.
Part001 ==
  [file |-> "unnamed/part_001",
   dir |-> <<>>, name |-> "query",
   frontMatter |-> <<[first |-> 1, last |-> 5, keys |-> {"title", "description", "template"}]>>,
   headings |-> {<<"Queries">>,
                 <<"Basic", " ", "query">>,
                 <<"Infinite", " ", "query">>,
                 <<"Mutations">>},
   links |-> {}]

\* unnamed/part_002, the "Project structure" page. Its file name is not recorded
\* and no page links to it; it is placed at the root under its title.
Part002 ==
  [file |-> "unnamed/part_002",
   dir |-> <<>>, name |-> "project-structure",
   frontMatter |-> <<[first |-> 1, last |-> 5, keys |-> {"title", "description", "template"}]>>,
   headings |-> {<<"Sub-domains">>,
                 <<"Domain", " ", "library">>,
                 <<"Feature", " ", "libraries">>,
                 <<"Shell", " ", "library">>,
                 <<"API", " ", "library">>,
                 <<"UI", " ", "libraries">>,
                 <<"Shared", " ", "libraries">>,
                 <<"Cross-domain", " ", "actions">>,
                 <<"Rules">>},
   links |-> {}]

\* unnamed/part_003, "Updating state" of the Store. Its file name is not
\* recorded; its sibling pages address it as ../updating-state.
Part003 ==
  [file |-> "unnamed/part_003",
   dir |-> <<"store">>, name |-> "updating-state",
   frontMatter |-> <<[first |-> 1, last |-> 5, keys |-> {"title", "description", "template"}]>>,
   headings |-> {<<"createReducer">>,
                 <<"Registering", " ", "reducers">>,
                 <<"Registering", " ", "feature", " ", "state">>,
                 <<"Registering", " ", "root", " ", "state">>},
   links |-> {}]

\* unnamed/part_004, "Side effects" of the Store. Its file name is not recorded;
\* it addresses store/updating-state as ../updating-state.
Part004 ==
  [file |-> "unnamed/part_004",
   dir |-> <<"store">>, name |-> "side-effects",
   frontMatter |-> <<[first |-> 1, last |-> 5, keys |-> {"title", "description", "template"}]>>,
   headings |-> {<<"The", " ", "Actions", " ", "service">>,
                 <<"createEffect">>,
                 <<"Registering", " ", "effects">>,
                 <<"Registering", " ", "feature", " ", "effects">>,
                 <<"Registering", " ", "root", " ", "effects">>,
                 <<"concatLatestFrom">>,
                 <<"Dispatching", " ", "multiple", " ", "actions">>,
                 <<"OnInitEffects">>,
                 <<"OnRunEffects">>,
                 <<"OnIdentifyEffects">>},
   links |-> {[line |-> 54, path |-> <<>>, anchor |-> "the-actions-service"],
              [line |-> 152, path |-> <<"..", "updating-state">>, anchor |-> "registering-root-state"]}]

ContentFiles ==
  {UsingFeaturesMdx, CsIndexMdx, CsReadingStateMdx, CsUpdatingStateMdx,
   StandaloneMdx, Part000, Part001, Part002, Part003, Part004}

FileNames == {f.file : f \in ContentFiles}

FileNamed(n) == CHOOSE f \in ContentFiles : f.file = n

\* File path -> route: the path without its extension, and a file named index
\* stands for its directory (component-store/index.mdx is the page the sidebar
\* links as "component-store").
RouteDirOnly(f) == f.dir

Route(f) == IF f.name = "index" THEN f.dir ELSE Append(f.dir, f.name)

\* The path of a page under the site: base, then the route.
Url(f) == base \o Route(f)

\* Heading -> anchor slug: letters are lowercased, spaces become hyphens and
\* punctuation is dropped ("## The Actions service" is linked as
\* #the-actions-service, "## setState" as #setstate).
LowerTable ==
  {<<"API", "api">>, <<"Actions", "actions">>, <<"Adding", "adding">>,
   <<"Advanced", "advanced">>, <<"Angular", "angular">>,
   <<"AppModule", "appmodule">>, <<"Astro", "astro">>,
   <<"Authoring", "authoring">>, <<"Basic", "basic">>,
   <<"Calling", "calling">>, <<"Choosing", "choosing">>,
   <<"Client", "client">>, <<"Common", "common">>,
   <<"Component", "component">>, <<"ComponentStore", "componentstore">>,
   <<"Computed", "computed">>, <<"Computing", "computing">>,
   <<"Creating", "creating">>, <<"Cross-domain", "cross-domain">>,
   <<"Debounce", "debounce">>, <<"Dependencies", "dependencies">>,
   <<"Destroying", "destroying">>, <<"Directives", "directives">>,
   <<"Dispatching", "dispatching">>, <<"Domain", "domain">>,
   <<"Effect", "effect">>, <<"Effects", "effects">>,
   <<"Fallback", "fallback">>, <<"Feature", "feature">>,
   <<"Functional", "functional">>, <<"Guidelines", "guidelines">>,
   <<"How", "how">>, <<"Infinite", "infinite">>, <<"Interop", "interop">>,
   <<"Introduction", "introduction">>, <<"Layouts", "layouts">>,
   <<"Lazy-loading", "lazy-loading">>, <<"Limitations", "limitations">>,
   <<"Mutations", "mutations">>, <<"Named", "named">>,
   <<"OnIdentifyEffects", "onidentifyeffects">>,
   <<"OnInitEffects", "oniniteffects">>, <<"OnRunEffects", "onruneffects">>,
   <<"Pages", "pages">>, <<"Project", "project">>, <<"Props", "props">>,
   <<"Providing", "providing">>, <<"Queries", "queries">>,
   <<"Reading", "reading">>, <<"Registering", "registering">>,
   <<"Routing", "routing">>, <<"Rules", "rules">>, <<"Script", "script">>,
   <<"Selecting", "selecting">>, <<"Selector", "selector">>,
   <<"Selectors", "selectors">>, <<"Shared", "shared">>, <<"Shell", "shell">>,
   <<"Signal", "signal">>, <<"Signals", "signals">>, <<"Slots", "slots">>,
   <<"Store", "store">>, <<"Sub-domains", "sub-domains">>,
   <<"Subscriptions", "subscriptions">>, <<"Sync", "sync">>,
   <<"Template", "template">>, <<"The", "the">>, <<"Tradeoffs", "tradeoffs">>,
   <<"Transfering", "transfering">>, <<"UI", "ui">>, <<"Use", "use">>,
   <<"Using", "using">>, <<"ViewModel", "viewmodel">>, <<"What", "what">>,
   <<"Writable", "writable">>, <<"concatLatestFrom", "concatlatestfrom">>,
   <<"createAction", "createaction">>,
   <<"createActionGroup", "createactiongroup">>,
   <<"createEffect", "createeffect">>,
   <<"createFeatureSelector", "createfeatureselector">>,
   <<"createReducer", "createreducer">>,
   <<"createSelector", "createselector">>, <<"patchState", "patchstate">>,
   <<"selectSignal", "selectsignal">>, <<"setState", "setstate">>,
   <<"tapResponse", "tapresponse">>, <<"toObservable", "toobservable">>,
   <<"toSignal", "tosignal">>}

Lower(w) ==
  IF \E p \in LowerTable : p[1] = w
  THEN (CHOOSE p \in LowerTable : p[1] = w)[2]
  ELSE w

Punctuation == {"(", ")", ".", ",", "$", "?", ":"}

RECURSIVE Slug(_)
Slug(heading) ==
  IF heading = <<>> THEN ""
  ELSE LET t == Head(heading)
       IN (IF t \in Punctuation THEN ""
           ELSE IF t = " " THEN "-"
           ELSE Lower(t)) \o Slug(Tail(heading))

Slugs(f) == {Slug(h) : h \in f.headings}

FrontMatterKeys == {"title", "description", "template"}

\* A file is well formed when it has one front-matter block, at the top, that
\* defines title, description and template.
WellFormedFrontMatter(f) ==
  /\ Len(f.frontMatter) = 1
  /\ f.frontMatter[1].first = 1
  /\ FrontMatterKeys \subseteq f.frontMatter[1].keys

----------------------------------------------------------------------------
(* Building and browsing the site                                          *)

NoLoc == [route |-> <<"-">>, anchor |-> "-"]

Pages == {f \in ContentFiles : f.file \in loaded}

Built == loaded = FileNames /\ Len(nav) = Len(SidebarEntries)

PageExists(route) == \E f \in Pages : Url(f) = route

PageAt(route) == CHOOSE f \in Pages : Url(f) = route

AnchorExists(route, anchor) ==
  anchor = "" \/ (PageExists(route) /\ anchor \in Slugs(PageAt(route)))

\* A relative reference resolved against the directory URL of a page
\* (/docs/store/using-features/): ".." leaves a directory, a name enters one.
RECURSIVE Resolve(_, _)
Resolve(from, path) ==
  IF path = <<>> THEN from
  ELSE IF Head(path) = ".."
       THEN Resolve(IF from = <<>> THEN <<>> ELSE SubSeq(from, 1, Len(from) - 1),
                    Tail(path))
       ELSE Resolve(Append(from, Head(path)), Tail(path))

\* The generator evaluates the configuration module (at the start of a build,
\* and again whenever it restarts).
EvaluateConfig ==
  /\ config' = defineConfig
  /\ UNCHANGED <<loaded, nav, loc, via>>
  /\ UNCHANGED nonSiteVars

\* The generator reads one content file.
LoadContent(n) ==
  /\ n \in FileNames \ loaded
  /\ loaded' = loaded \cup {n}
  /\ UNCHANGED <<config, nav, loc, via>>
  /\ UNCHANGED nonSiteVars

\* The generator renders the next entry of the sidebar.
RenderSidebarEntry ==
  /\ Len(nav) < Len(Flatten(SidebarOf(config), 0))
  /\ nav' = Append(nav, Flatten(SidebarOf(config), 0)[Len(nav) + 1])
  /\ UNCHANGED <<config, loaded, loc, via>>
  /\ UNCHANGED nonSiteVars

\* The reader opens a page of the built site by its address.
Open(n) ==
  /\ Built
  /\ n \in loaded
  /\ loc' = [route |-> Url(FileNamed(n)), anchor |-> ""]
  /\ via' = "open"
  /\ UNCHANGED <<config, loaded, nav>>
  /\ UNCHANGED nonSiteVars

\* The reader clicks the i-th entry of the sidebar; a link entry leads to
\* base/link.
ClickSidebar(i) ==
  /\ Built
  /\ i \in 1..Len(nav)
  /\ nav[i].kind = "link"
  /\ loc' = [route |-> Resolve(config.base, nav[i].link), anchor |-> ""]
  /\ via' = "sidebar"
  /\ UNCHANGED <<config, loaded, nav>>
  /\ UNCHANGED nonSiteVars

\* The reader clicks an internal link of the page they are on.
ClickContent(l) ==
  /\ Built
  /\ loc # NoLoc
  /\ PageExists(loc.route)
  /\ l \in PageAt(loc.route).links
  /\ loc' = [route |-> Resolve(loc.route, l.path), anchor |-> l.anchor]
  /\ via' = "content"
  /\ UNCHANGED <<config, loaded, nav>>
  /\ UNCHANGED nonSiteVars

AllLinks == UNION {f.links : f \in ContentFiles}

NextSite ==
  \/ EvaluateConfig
  \/ \E n \in FileNames : LoadContent(n)
  \/ RenderSidebarEntry
  \/ \E n \in FileNames : Open(n)
  \/ \E i \in 1..Len(SidebarEntries) : ClickSidebar(i)
  \/ \E l \in AllLinks : ClickContent(l)

----------------------------------------------------------------------------
(* Actions: store/using-features.mdx (the "Actions" page), part_002,       *)
(* part_003, part_004                                                      *)

\* createAction(type): an action creator with the given type.
createAction(const, type) == {[creator |-> const, type |-> type]}

\* createActionGroup({source, events}): one creator per event, of type
\* "[source] event", under the camel-cased event name.
createActionGroup(const, source, events) ==
  {[creator |-> const \o "." \o e.key, type |-> "[" \o source \o "] " \o e.name]
     : e \in events}

someAction == createAction("someAction", "[Event Source] Some Action")

login == createAction("login", "[Login Page] Login")

productsPageActions ==
  createActionGroup("productsPageActions", "Products Page",
    {[key |-> "opened", name |-> "Opened"],
     [key |-> "paginationChanged", name |-> "Pagination Changed"]})

navigationMenuActions ==
  createActionGroup("navigationMenuActions", "Navigation Menu",
    {[key |-> "logout", name |-> "Logout"]})

userDashboardActions ==
  createActionGroup("userDashboardActions", "User Dashboard",
    {[key |-> "logout", name |-> "Logout"]})

userDashboardAuthActions ==
  createActionGroup("userDashboardAuthActions", "User Dashboard",
    {[key |-> "logout", name |-> "Logout"]})

someActions ==
  createActionGroup("someActions", "Some",
    {[key |-> "somethingHappened", name |-> "Something Happened"]})

\* The action creators the documentation defines.
DefinedCreators ==
  someAction \cup login \cup productsPageActions \cup navigationMenuActions
  \cup userDashboardActions \cup userDashboardAuthActions \cup someActions

\* The sources and event names the definitions use.
DefinedSources ==
  {"Event Source", "Login Page", "Products Page", "Navigation Menu",
   "User Dashboard", "Some"}

DefinedEvents ==
  {"Some Action", "Login", "Opened", "Pagination Changed", "Logout",
   "Something Happened"}

\* The groups below are used by the reducers and effects of the pages, which
\* do not show their definitions; the name of the group stands for its source.
gameActions ==
  createActionGroup("gameActions", "gameActions",
    {[key |-> "player1Scored", name |-> "Player1 Scored"],
     [key |-> "player2Scored", name |-> "Player2 Scored"],
     [key |-> "reset", name |-> "Reset"]})

loginActions ==
  createActionGroup("loginActions", "loginActions",
    {[key |-> "login", name |-> "Login"]})

localStorageActions ==
  createActionGroup("localStorageActions", "localStorageActions",
    {[key |-> "tokenRestored", name |-> "Token Restored"]})

sidenavActions ==
  createActionGroup("sidenavActions", "sidenavActions",
    {[key |-> "logout", name |-> "Logout"]})

cartActions ==
  createActionGroup("cartActions", "cartActions",
    {[key |-> "removeSelectedItems", name |-> "Remove Selected Items"],
     [key |-> "removeSelectedItemsSuccess", name |-> "Remove Selected Items Success"],
     [key |-> "removeSelectedItemsError", name |-> "Remove Selected Items Error"]})

\* group.key, as in gameActions.reset
Creator(group, name) == CHOOSE c \in group : c.creator = name

\* Calling a creator yields an action: its type merged with the props.
ActionOf(c, props) == [creator |-> c.creator, type |-> c.type, props |-> props]

emptyProps == <<>>

MaxPoints == 2

Points == 1..MaxPoints

Tokens == {"t1", "t2"}

player1Scored == Creator(gameActions, "gameActions.player1Scored")

player2Scored == Creator(gameActions, "gameActions.player2Scored")

reset == Creator(gameActions, "gameActions.reset")

removeSelectedItems == Creator(cartActions, "cartActions.removeSelectedItems")

removeSelectedItemsSuccess ==
  Creator(cartActions, "cartActions.removeSelectedItemsSuccess")

removeSelectedItemsError ==
  Creator(cartActions, "cartActions.removeSelectedItemsError")

\* The actions components dispatch.
ComponentActions ==
  {ActionOf(c, [points |-> p]) : c \in {player1Scored, player2Scored}, p \in Points}
  \cup {ActionOf(reset, emptyProps)}
  \cup {ActionOf(c, [token |-> t]) : c \in loginActions \cup localStorageActions,
                                     t \in Tokens}
  \cup {ActionOf(c, emptyProps) :
          c \in sidenavActions \cup userDashboardActions \cup userDashboardAuthActions
                \cup navigationMenuActions \cup someAction \cup someActions}
  \cup {ActionOf(c, [username |-> "u", password |-> "p"]) : c \in login}
  \cup {ActionOf(Creator(productsPageActions, "productsPageActions.opened"),
                 emptyProps),
        ActionOf(Creator(productsPageActions, "productsPageActions.paginationChanged"),
                 [page |-> 1, pageSize |-> 10])}
  \cup {ActionOf(removeSelectedItems, emptyProps)}

----------------------------------------------------------------------------
(* Reducers: part_003 (store/updating-state)                               *)
(*                                                                         *)
(* State values are objects on a heap, so that returning a new object,     *)
(* returning the object received and changing an object in place are       *)
(* different things. A reducer call returns the heap and the reference of  *)
(* the value it returns.                                                   *)

\* const initialState: GameState = { player1: 0, player2: 0 } and
\* const initialState = {} of the AuthState example: the first two objects.
InitialHeap == <<[player1 |-> 0, player2 |-> 0], <<>>>>

initialState == [game |-> Len(InitialHeap) - 1, auth |-> Len(InitialHeap)]

\* on(creators, handler) applies to the actions with the type of a creator.
OfType(a, creators) == \E c \in creators : a.type = c.type

\* ({ ...state, field: value }): a new object.
Alloc(h, obj) == [heap |-> Append(h, obj), ref |-> Len(h) + 1]

gameReducerInPlace(h, ref, a) ==
  IF OfType(a, {player1Scored})
  THEN [heap |-> [h EXCEPT ![ref].player1 = @ + a.props.points], ref |-> ref]
  ELSE IF OfType(a, {player2Scored})
  THEN [heap |-> [h EXCEPT ![ref].player2 = @ + a.props.points], ref |-> ref]
  ELSE IF OfType(a, {reset})
  THEN [heap |-> h, ref |-> initialState.game]
  ELSE [heap |-> h, ref |-> ref]

gameReducerNoReset(h, ref, a) ==
  IF OfType(a, {player1Scored})
  THEN Alloc(h, [h[ref] EXCEPT !.player1 = h[ref].player1 + a.props.points])
  ELSE IF OfType(a, {player2Scored})
  THEN Alloc(h, [h[ref] EXCEPT !.player2 = h[ref].player2 + a.props.points])
  ELSE [heap |-> h, ref |-> ref]

gameReducer(h, ref, a) ==
  IF OfType(a, {player1Scored})
  THEN Alloc(h, [h[ref] EXCEPT !.player1 = h[ref].player1 + a.props.points])
  ELSE IF OfType(a, {player2Scored})
  THEN Alloc(h, [h[ref] EXCEPT !.player2 = h[ref].player2 + a.props.points])
  ELSE IF OfType(a, {reset})
  THEN [heap |-> h, ref |-> initialState.game]
  ELSE [heap |-> h, ref |-> ref]

authReducer(h, ref, a) ==
  IF OfType(a, loginActions \cup localStorageActions)
  THEN Alloc(h, [token |-> a.props.token])
  ELSE IF OfType(a, sidenavActions \cup userDashboardActions)
  THEN [heap |-> h, ref |-> initialState.auth]
  ELSE [heap |-> h, ref |-> ref]

\* The registered reducers applied to one store: game under the key "game",
\* auth under the key "auth".
Reducers(h, s, a) ==
  LET g == gameReducer(h, s.game, a)
      u == authReducer(g.heap, s.auth, a)
  IN [heap |-> u.heap, state |-> [game |-> g.ref, auth |-> u.ref]]

\* What a selector reads from a store.
Value(h, s) == [game |-> h[s.game], auth |-> h[s.auth]]

\* export const gameFeatureKey = 'game';
gameFeatureKey == "game"

\* createFeatureSelector<GameState>(gameFeatureKey)
selectGameState(state) == state[gameFeatureKey]

\* createSelector(selectGameState, (gameState) => gameState.player1)
selectPlayer1Score(state) == selectGameState(state).player1

\* createSelector(selectGameState, (gameState) => gameState.player2)
selectPlayer2Score(state) == selectGameState(state).player2

\* createSelector(selectPlayer1Score, selectPlayer2Score, (player1, player2) => ...)
selectWinner(state) ==
  LET player1 == selectPlayer1Score(state)
      player2 == selectPlayer2Score(state)
  IN IF player1 > player2 THEN "player 1"
     ELSE IF player1 < player2 THEN "player 2"
     ELSE "draw"

gameFeatureNoDraw(selector, state) ==
  CASE selector = "selectGameState" -> state["game"]
    [] selector = "selectPlayer1" -> state["game"].player1
    [] selector = "selectPlayer2" -> state["game"].player2
    [] selector = "selectWinner" ->
         IF state["game"].player1 >= state["game"].player2 THEN "player 1"
         ELSE "player 2"

\* gameFeature = createFeature({ name: 'game', reducer, extraSelectors }): the
\* feature state selector reads the state under the feature name, a property
\* selector reads the property it is named after, and selectWinner is built
\* by extraSelectors from selectPlayer1 and selectPlayer2.
gameFeature(selector, state) ==
  LET name == "game"
      selectState == state[name]
      selectPlayer1 == selectState.player1
      selectPlayer2 == selectState.player2
  IN CASE selector = "selectGameState" -> selectState
       [] selector = "selectPlayer1" -> selectPlayer1
       [] selector = "selectPlayer2" -> selectPlayer2
       [] selector = "selectWinner" ->
            IF selectPlayer1 > selectPlayer2 THEN "player 1"
            ELSE IF selectPlayer1 < selectPlayer2 THEN "player 2"
            ELSE "draw"

----------------------------------------------------------------------------
(* Dispatch, reducers, effects: part_004 (store/side-effects)              *)

MaxDispatch == 3

\* The cart slice of the state is not shown by the page: the number of actions
\* reduced into the state stands for the selectedItems read from it.
NoCall == [for |-> 0, selectedItems |-> 0]

\* The Actions stream of the effects holds the actions the reducers have
\* already applied ("effects run after the state has been updated").
ActionsBeforeReducers == Len(dispatched)

Actions == reduced

\* 1. An action is dispatched from a component.
Dispatch(a) ==
  /\ Len(dispatched) < MaxDispatch
  /\ dispatched' = Append(dispatched, a)
  /\ UNCHANGED <<heap, store, replica, reduced, delivered, observed, inFlight>>
  /\ UNCHANGED nonStoreVars

\* 2. The reducers update the state based on the action. The second store is
\* given the same action.
Reduce ==
  /\ reduced < Len(dispatched)
  /\ LET a == dispatched[reduced + 1]
         first == Reducers(heap, store, a)
         second == Reducers(first.heap, replica, a)
     IN /\ heap' = second.heap
        /\ store' = first.state
        /\ replica' = second.state
  /\ reduced' = reduced + 1
  /\ UNCHANGED <<dispatched, delivered, observed, inFlight>>
  /\ UNCHANGED nonStoreVars

\* 3. The effects receive the action. CartEffects.removeSelectedItems$ reacts
\* to cartActions.removeSelectedItems: concatLatestFrom reads the state and
\* switchMap starts the API call, dropping the call still in flight.
EffectsReceive ==
  /\ delivered < Actions
  /\ delivered' = delivered + 1
  /\ LET a == dispatched[delivered + 1]
     IN IF OfType(a, {removeSelectedItems})
        THEN /\ observed' = Append(observed, [action |-> delivered + 1,
                                              version |-> reduced,
                                              state |-> Value(heap, store)])
             /\ inFlight' = [for |-> delivered + 1, selectedItems |-> reduced]
        ELSE UNCHANGED <<observed, inFlight>>
  /\ UNCHANGED <<heap, store, replica, dispatched, reduced>>
  /\ UNCHANGED nonStoreVars

\* The API call answers: map dispatches removeSelectedItemsSuccess, catchError
\* dispatches removeSelectedItemsError.
ApiRespond(ok) ==
  /\ inFlight # NoCall
  /\ Len(dispatched) < MaxDispatch
  /\ dispatched' =
       Append(dispatched,
              IF ok
              THEN ActionOf(removeSelectedItemsSuccess, [selectedItems |-> inFlight.selectedItems])
              ELSE ActionOf(removeSelectedItemsError, [error |-> inFlight.for]))
  /\ inFlight' = NoCall
  /\ UNCHANGED <<heap, store, replica, reduced, delivered, observed>>
  /\ UNCHANGED nonStoreVars

NextStore ==
  \/ \E a \in ComponentActions : Dispatch(a)
  \/ Reduce
  \/ EffectsReceive
  \/ \E ok \in BOOLEAN : ApiRespond(ok)

----------------------------------------------------------------------------
(* MyComponentStore: component-store/updating-state.mdx                    *)

MaxItems == 2

\* How far below zero removeItem is followed.
MaxOverRemoved == 1

ItemIds == 1..MaxItems

PageSizes == {10, 20}

\* MyItem[] values: lists of distinct items, by id.
ItemLists ==
  {l \in UNION {[1..n -> ItemIds] : n \in 0..MaxItems} :
     \A i, j \in DOMAIN l : l[i] = l[j] => i = j}

\* type MyComponentState = { myItems, totalItems, pageSize }
MyComponentState ==
  [myItems : ItemLists, totalItems : 0..MaxItems, pageSize : PageSizes]

\* super({ myItems: [], totalItems: 0, pageSize: 10 })
constructorState == [myItems |-> <<>>, totalItems |-> 0, pageSize |-> 10]

\* setState(value): the value replaces the state.
setState(value) == value

\* { ...a, ...b }: the keys of both, b's value where both have the key.
Spread(a, b) ==
  [k \in DOMAIN a \cup DOMAIN b |-> IF k \in DOMAIN b THEN b[k] ELSE a[k]]

patchStateOverwritten(state, partial) == Spread(partial, state)

\* patchState(partial): the given keys are replaced, the others are kept.
patchState(state, partial) == Spread(state, partial)

\* changePageSize(pageSize) { this.setState((state) => ({ ...state, pageSize })) }
changePageSizeBySetState(state, pageSize) ==
  LET fn(current) == Spread(current, [pageSize |-> pageSize])
  IN setState(fn(state))

changePageSizeNotApplied(state, pageSize) == state

\* changePageSize = this.updater<number>((state, pageSize) => ({ ...state, pageSize }))
changePageSizeByUpdater(state, pageSize) ==
  Spread(state, [pageSize |-> pageSize])

\* changePageSize(pageSize) { this.patchState({ pageSize }); }
changePageSizeByPatchState(state, pageSize) ==
  patchState(state, [pageSize |-> pageSize])

\* removeItem = this.updater<number>((state, itemId) => ({ ...state,
\*   totalItems: state.totalItems - 1,
\*   myItems: state.myItems.filter((item) => item.id !== itemId) }))
removeItemByUpdater(state, itemId) ==
  Spread(state,
         [totalItems |-> state.totalItems - 1,
          myItems |-> SelectSeq(state.myItems, LAMBDA item : item # itemId)])

\* removeItem(itemId) { this.patchState((state) => ({ totalItems: ..., myItems: ... })) }
removeItemByPatchState(state, itemId) ==
  LET fn(current) ==
        [totalItems |-> current.totalItems - 1,
         myItems |-> SelectSeq(current.myItems, LAMBDA item : item # itemId)]
  IN patchState(state, fn(state))

\* changePageSizeAndTotalItems = this.updater((state, { pageSize, totalItems })
\*   => ({ ...state, pageSize, totalItems }))
changePageSizeAndTotalItemsByUpdater(state, arg) ==
  Spread(state, [pageSize |-> arg.pageSize, totalItems |-> arg.totalItems])

\* The three documented ways of writing a method of the store.
Versions == {"setState", "updater", "patchState"}

\* The values of totalItems the component passes in.
TotalItemsValues == {0, 50, 100}

----------------------------------------------------------------------------
(* Component store, reading state: component-store/reading-state.mdx       *)

RECURSIVE GCD(_, _)
GCD(a, b) == IF b = 0 THEN a ELSE GCD(b, a % b)

\* The number a / b, kept exact as a fraction in lowest terms.
Quotient(a, b) == <<a \div GCD(a, b), b \div GCD(a, b)>>

\* (totalItems, pageSize) => totalItems / pageSize
pagesProjector(totalItems, pageSize) == Quotient(totalItems, pageSize)

EmitsAlways(previousValue, currentValue) == TRUE

\* "If previousValue === currentValue the selector will not emit".
Emits(previousValue, currentValue) == previousValue # currentValue

\* select({ totalItems, pageSize, pages }): the combined object.
ViewModel(totalItems, pageSize, pages) ==
  [totalItems |-> totalItems, pageSize |-> pageSize, pages |-> pages]

\* A component that has not subscribed to the selectors.
NotSubscribed ==
  [subscribed |-> FALSE, totalItems |-> <<>>, pageSize |-> 0,
   pages |-> <<0, 1>>, pending |-> FALSE]

\* A step in which no selector ran.
Idle ==
  [kind |-> "idle", totalItems |-> <<>>,
   viewModel |-> <<>>, debounced |-> <<>>, projector |-> 0, single |-> 0]

\* What a new state does to the selectors of a subscriber s. The store hands
\* the state to totalItems$ and then to pageSize$; pages$ listens to both and
\* recomputes after each of them has emitted.
Changes(s, state) ==
  LET previous == s.totalItems[Len(s.totalItems)]
      totalEmits == Emits(previous, state.totalItems)
      sizeEmits == Emits(s.pageSize, state.pageSize)
      pages1 == IF totalEmits
                THEN pagesProjector(state.totalItems, s.pageSize)
                ELSE s.pages
      pages2 == IF sizeEmits
                THEN pagesProjector(state.totalItems, state.pageSize)
                ELSE pages1
  IN [totalItems |-> state.totalItems, pageSize |-> state.pageSize,
      totalEmits |-> totalEmits, sizeEmits |-> sizeEmits,
      oldPageSize |-> s.pageSize, oldPages |-> s.pages,
      pages1 |-> pages1, pages1Emits |-> totalEmits /\ Emits(s.pages, pages1),
      pages2 |-> pages2, pages2Emits |-> sizeEmits /\ Emits(pages1, pages2)]

viewModelEmissionsSettled(c) ==
  IF c.totalEmits \/ c.sizeEmits
  THEN <<ViewModel(c.totalItems, c.pageSize, c.pages2)>>
  ELSE <<>>

\* viewModel$ emits once for every emission of one of its selectors, with
\* the latest values of the others: "One for the change in pageSize$ and one
\* for the change in pages$".
viewModelEmissions(c) ==
  (IF c.totalEmits
   THEN <<ViewModel(c.totalItems, c.oldPageSize, c.oldPages)>> ELSE <<>>)
  \o (IF c.pages1Emits
      THEN <<ViewModel(c.totalItems, c.oldPageSize, c.pages1)>> ELSE <<>>)
  \o (IF c.sizeEmits
      THEN <<ViewModel(c.totalItems, c.pageSize, c.pages1)>> ELSE <<>>)
  \o (IF c.pages2Emits
      THEN <<ViewModel(c.totalItems, c.pageSize, c.pages2)>> ELSE <<>>)

projectorCallsPerState(c) == 1

\* pages$ = this.select(this.totalItems$, this.pageSize$, projector): "this
\* will only be called if the value of any of the input selectors changes".
projectorCalls(c) ==
  (IF c.totalEmits THEN 1 ELSE 0) + (IF c.sizeEmits THEN 1 ELSE 0)

\* The store has a new state object: every selector a component subscribed
\* to runs, in the same step.
Notify(state) ==
  IF ~sel.subscribed
  THEN /\ sel' = sel
       /\ step' = Idle
  ELSE LET c == Changes(sel, state)
       IN /\ sel' = [subscribed |-> TRUE,
                     totalItems |->
                       IF c.totalEmits
                       THEN <<sel.totalItems[Len(sel.totalItems)],
                              c.totalItems>>
                       ELSE sel.totalItems,
                     pageSize |-> c.pageSize,
                     pages |-> c.pages2,
                     pending |-> sel.pending \/ viewModelEmissions(c) # <<>>]
          /\ step' = [kind |-> "update",
                      totalItems |->
                        IF c.totalEmits THEN <<c.totalItems>> ELSE <<>>,
                      viewModel |-> viewModelEmissions(c),
                      debounced |-> <<>>,
                      projector |-> projectorCalls(c),
                      \* this.select((state) => state.totalItems / state.pageSize)
                      single |-> 1]

\* A component subscribes to totalItems$, pageSize$, both forms of pages$,
\* viewModel$ and the debounced viewModel$: "they emit the value immediately
\* when subscribed to". The debounced one emits after the current task.
Subscribe ==
  /\ ~sel.subscribed
  /\ sel' = [subscribed |-> TRUE,
             totalItems |-> <<cs.totalItems>>,
             pageSize |-> cs.pageSize,
             pages |-> pagesProjector(cs.totalItems, cs.pageSize),
             pending |-> TRUE]
  /\ step' = [kind |-> "subscribe",
              totalItems |-> <<cs.totalItems>>,
              viewModel |-> <<ViewModel(cs.totalItems, cs.pageSize,
                                        pagesProjector(cs.totalItems,
                                                       cs.pageSize))>>,
              debounced |-> <<>>,
              projector |-> 1,
              single |-> 1]
  /\ UNCHANGED <<cs, csCall, csError>>
  /\ UNCHANGED <<csEffect, nonCsVars>>

\* { debounce: true }: once the current task has ended, the debounced
\* viewModel$ emits the latest combined value, if any was produced.
Flush ==
  /\ sel.pending
  /\ sel' = [sel EXCEPT !.pending = FALSE]
  /\ step' = [Idle EXCEPT
                !.kind = "flush",
                !.debounced = <<ViewModel(sel.totalItems[Len(sel.totalItems)],
                                          sel.pageSize, sel.pages)>>]
  /\ UNCHANGED <<cs, csCall, csError>>
  /\ UNCHANGED <<csEffect, nonCsVars>>

\* A call of the store has produced a new state.
Commit(state, call) ==
  /\ cs' = state
  /\ csCall' = call
  /\ csError' = "none"
  /\ Notify(state)
  /\ UNCHANGED <<csEffect, nonCsVars>>

\* changePageSize(pageSize), in each of its three documented forms.
changePageSize(version, pageSize) ==
  /\ version \in Versions
  /\ Commit(CASE version = "setState" -> changePageSizeBySetState(cs, pageSize)
              [] version = "updater" -> changePageSizeByUpdater(cs, pageSize)
              [] version = "patchState" ->
                   changePageSizeByPatchState(cs, pageSize),
            [method |-> "changePageSize", arg |-> pageSize,
             version |-> version])

\* removeItem(itemId), in each of its two documented forms.
removeItem(version, itemId) ==
  /\ cs.totalItems > -MaxOverRemoved
  /\ Commit(CASE version = "updater" -> removeItemByUpdater(cs, itemId)
              [] version = "patchState" -> removeItemByPatchState(cs, itemId),
            [method |-> "removeItem", arg |-> itemId, version |-> version])

\* changePageSizeAndTotalItems({ pageSize, totalItems })
changePageSizeAndTotalItems(arg) ==
  /\ arg \in [pageSize : PageSizes, totalItems : TotalItemsValues]
  /\ Commit(changePageSizeAndTotalItemsByUpdater(cs, arg),
            [method |-> "changePageSizeAndTotalItems", arg |-> arg])

----------------------------------------------------------------------------
(* Component store, side effects: component-store/index.mdx                *)

MaxPage == 2

PageNumbers == 1..MaxPage

\* What an inner observable delivers. An HTTP call delivers one value and
\* completes, or fails.
Delivers(ok, value, error) ==
  IF ok
  THEN <<[kind |-> "next", value |-> value], [kind |-> "complete"]>>
  ELSE <<[kind |-> "error", error |-> error]>>

HasError(out) == \E i \in DOMAIN out : out[i].kind = "error"

\* The operators of an inner pipe act on r = [calls, out]: the callbacks
\* called so far, in order, and what the observable delivers downstream.
\* tap((myItems) => { this.patchState({ myItems }); })
tap(r) ==
  LET nexts == SelectSeq(r.out, LAMBDA n : n.kind = "next")
  IN [calls |-> r.calls \o [i \in DOMAIN nexts |->
                              [fn |-> "patchState", arg |-> nexts[i].value]],
      out |-> r.out]

catchErrorRethrows(r) ==
  IF HasError(r.out)
  THEN [calls |-> Append(r.calls, [fn |-> "handleHttpErrorSomehow",
                                   arg |-> r.out[Len(r.out)].error]),
        out |-> r.out]
  ELSE r

\* catchError((error) => { handleHttpErrorSomehow(error); return EMPTY; }):
\* the failed observable is replaced by one that only completes.
catchError(r) ==
  IF HasError(r.out)
  THEN [calls |-> Append(r.calls, [fn |-> "handleHttpErrorSomehow",
                                   arg |-> r.out[Len(r.out)].error]),
        out |-> Append(SubSeq(r.out, 1, Len(r.out) - 1), [kind |-> "complete"])]
  ELSE r

tapResponseSilent(r) ==
  [calls |-> [i \in DOMAIN SelectSeq(r.out, LAMBDA n : n.kind = "next") |->
                [fn |-> "patchState",
                 arg |-> SelectSeq(r.out, LAMBDA n : n.kind = "next")[i].value]],
   out |-> [i \in DOMAIN r.out |->
              IF r.out[i].kind = "error" THEN [kind |-> "complete"]
              ELSE r.out[i]]]

\* tapResponse(next, error): "combines the other two operators and returns
\* EMPTY in the error branch automatically".
tapResponse(r) ==
  LET seen == SelectSeq(r.out, LAMBDA n : n.kind \in {"next", "error"})
  IN [calls |-> r.calls \o [i \in DOMAIN seen |->
                              IF seen[i].kind = "next"
                              THEN [fn |-> "patchState", arg |-> seen[i].value]
                              ELSE [fn |-> "handleHttpErrorSomehow",
                                    arg |-> seen[i].error]],
      out |-> [i \in DOMAIN r.out |->
                 IF r.out[i].kind = "error" THEN [kind |-> "complete"]
                 ELSE r.out[i]]]

\* The two documented forms of the inner pipe of loadPage.
LoadPageVersions == {"catchError", "tapResponse"}

\* this.myItemsApiService.getMyItems(page).pipe(...)
loadPageInner(version, response) ==
  IF version = "catchError"
  THEN catchError(tap([calls |-> <<>>, out |-> response]))
  ELSE tapResponse([calls |-> <<>>, out |-> response])

switchMapKeepsFirst(e, page) ==
  [page |-> IF e.page # 0 THEN e.page ELSE page,
   unsubscribed |-> e.unsubscribed]

\* switchMap((page) => this.myItemsApiService.getMyItems(page).pipe(...)):
\* a new page closes the inner subscription of the request in flight, if
\* any, and subscribes to the request for the new page.
switchMap(e, page) ==
  [page |-> page,
   unsubscribed |-> e.unsubscribed \cup ({e.page} \ {0})]

\* loadPage(page): the effect's observable receives a page. switchMap drops
\* the request in flight and starts a new one. An effect that has ended
\* accepts no new values.
loadPage(page) ==
  /\ csEffect' = [subscribed |-> csEffect.subscribed,
                  page |-> IF csEffect.subscribed
                           THEN switchMap(csEffect, page).page ELSE 0,
                  unsubscribed |-> IF csEffect.subscribed
                                   THEN switchMap(csEffect, page).unsubscribed
                                   ELSE csEffect.unsubscribed,
                  requested |-> page,
                  last |-> <<>>]
  /\ csCall' = [method |-> "loadPage", arg |-> page]
  /\ csError' = "none"
  /\ step' = Idle
  /\ UNCHANGED <<cs, sel>>
  /\ UNCHANGED nonCsVars

\* The request in flight is answered: the inner pipe runs its callbacks, and
\* an error that leaves the inner pipe ends the effect.
getMyItemsResponds(version, ok, items) ==
  /\ csEffect.page # 0
  /\ LET r == loadPageInner(version, Delivers(ok, items, "HttpErrorResponse"))
         patches == SelectSeq(r.calls, LAMBDA c : c.fn = "patchState")
         state == IF patches = <<>> THEN cs
                  ELSE patchState(cs, [myItems |-> patches[Len(patches)].arg])
     IN /\ csEffect' = [subscribed |-> ~HasError(r.out),
                        page |-> 0,
                        unsubscribed |-> csEffect.unsubscribed,
                        requested |-> csEffect.requested,
                        last |-> <<[version |-> version, ok |-> ok,
                                    page |-> csEffect.page,
                                    items |-> items, calls |-> r.calls,
                                    out |-> r.out]>>]
        /\ cs' = state
        /\ IF patches = <<>>
           THEN sel' = sel /\ step' = Idle
           ELSE Notify(state)
  /\ csCall' = [method |-> "getMyItems", arg |-> csEffect.page]
  /\ csError' = "none"
  /\ UNCHANGED nonCsVars

\* The answer to a request whose inner subscription switchMap has closed:
\* whatever the answer is, the closed subscription delivers nothing to the
\* inner pipe.
getMyItemsRespondsUnsubscribed(version, page) ==
  /\ page \in csEffect.unsubscribed
  /\ LET r == loadPageInner(version, <<>>)
         patches == SelectSeq(r.calls, LAMBDA c : c.fn = "patchState")
         state == IF patches = <<>> THEN cs
                  ELSE patchState(cs, [myItems |-> patches[Len(patches)].arg])
     IN /\ csEffect' = [csEffect EXCEPT
                          !.subscribed = @ /\ ~HasError(r.out),
                          !.unsubscribed = @ \ {page}]
        /\ cs' = state
        /\ IF patches = <<>>
           THEN sel' = sel /\ step' = Idle
           ELSE Notify(state)
  /\ csCall' = [method |-> "getMyItemsUnsubscribed", arg |-> page]
  /\ csError' = "none"
  /\ UNCHANGED nonCsVars

\* A component reading the state while the store is used.
NextSel ==
  \/ Subscribe
  \/ Flush
  \/ \E pageSize \in PageSizes : changePageSize("updater", pageSize)
  \/ \E arg \in [pageSize : PageSizes, totalItems : TotalItemsValues] :
       changePageSizeAndTotalItems(arg)
  \/ loadPage(1)
  \/ \E ok \in BOOLEAN, items \in ItemLists :
       getMyItemsResponds("catchError", ok, items)

\* The identifier `state` in the body of changeState is not the parameter
\* newState and nothing in the class declares it. Either it is unbound, and
\* reading it throws a ReferenceError before setState is called, or the
\* surrounding scope binds it to some MyComponentState.
\* changeState(newState) { this.setState(state); }
changeState(newState) ==
  /\ \/ /\ cs' = cs
        /\ csError' = "ReferenceError"
        /\ sel' = sel
        /\ step' = Idle
     \/ \E state \in MyComponentState :
          /\ cs' = setState(state)
          /\ csError' = "none"
          /\ Notify(setState(state))
  /\ csCall' = [method |-> "changeState", arg |-> newState]
  /\ UNCHANGED <<csEffect, nonCsVars>>

\* The earlier version of the page (angular/standalone.mdx, "Updating state"):
\* changeState(state) { this.setState(state); }
changeStateEarlier(state) ==
  /\ cs' = setState(state)
  /\ csError' = "none"
  /\ csCall' = [method |-> "changeStateEarlier", arg |-> state]
  /\ Notify(setState(state))
  /\ UNCHANGED <<csEffect, nonCsVars>>

NextCS ==
  \/ \E newState \in MyComponentState : changeState(newState)
  \/ \E state \in MyComponentState : changeStateEarlier(state)

\* constructor(private myComponentStore: MyComponentStore) {
\*   this.myComponentStore.changePageSize(this.someExternalPageSize$); }
\* The updater subscribes to the observable; nothing has been emitted yet.
MyComponent ==
  /\ ~myComponent.created
  /\ myComponent' = [created |-> TRUE]
  /\ csCall' = [method |-> "MyComponent", arg |-> "someExternalPageSize$"]
  /\ csError' = "none"
  /\ step' = Idle
  /\ UNCHANGED <<cs, sel, csEffect, siteVars, storeVars, libVars, fxVars,
                 signalVars>>

\* someExternalPageSize$ emits: the updater it was given to runs its update
\* function with the value.
someExternalPageSizeEmits(pageSize) ==
  /\ myComponent.created
  /\ Commit(changePageSizeByUpdater(cs, pageSize),
            [method |-> "changePageSize", arg |-> pageSize,
             version |-> "updater", from |-> "someExternalPageSize$"])

\* The store with the methods of the later sections of the page.
NextUpdate ==
  \/ \E state \in MyComponentState : changeStateEarlier(state)
  \/ MyComponent
  \/ \E pageSize \in PageSizes : someExternalPageSizeEmits(pageSize)
  \/ \E version \in Versions, pageSize \in PageSizes :
       changePageSize(version, pageSize)
  \/ \E version \in Versions \ {"setState"}, itemId \in ItemIds :
       removeItem(version, itemId)

----------------------------------------------------------------------------
(* Store, side effects of SomeEffects: part_004                            *)

\* The members the class SomeEffects declares: its three effects and the
\* constructor parameter `private actions: Actions`.
SomeEffectsMembers == {"loadSomething$", "annoyUser$", "logErrors$", "actions"}

\* The two classes named SomeEffects: the one registered as it is, and the
\* one that implements OnRunEffects.
EffectsClasses == {"SomeEffects", "OnRunEffects"}

\* this.someApiService.load().pipe(
\*   map((result) => someActions.loadSomethingSuccess({ result })),
\*   catchError((error) => of(someActions.loadSomethingError({ error }))))
loadSomethingInner(response) ==
  LET mapped == [i \in DOMAIN response |->
                   IF response[i].kind = "next"
                   THEN [kind |-> "next",
                         value |-> [type |-> "loadSomethingSuccess",
                                    result |-> response[i].value]]
                   ELSE response[i]]
  IN IF HasError(mapped)
     THEN SubSeq(mapped, 1, Len(mapped) - 1)
          \o <<[kind |-> "next",
                value |-> [type |-> "loadSomethingError",
                           error |-> mapped[Len(mapped)].error]],
               [kind |-> "complete"]>>
     ELSE mapped

\* ngrxOnRunEffects: what an action does to the subscription to the effects of
\* the class. exhaustMap ignores loginSuccess while its inner observable is
\* subscribed to. Its function builds the inner observable from
\* this.actions$, a member the class does not have: reading .pipe of
\* undefined throws, and the error ends the observable ngrxOnRunEffects
\* returned.
ngrxOnRunEffects(gate, action) ==
  IF action = "loginSuccess" /\ gate = "waiting"
  THEN IF "actions$" \in SomeEffectsMembers THEN "running" ELSE "errored"
  ELSE IF action = "logout" /\ gate = "running" THEN "waiting"
  ELSE gate

\* An action reaches the effects of a class.
Receive(class, e, action) ==
  LET gate == IF class = "OnRunEffects"
              THEN ngrxOnRunEffects(e.gate, action)
              ELSE e.gate
  IN [gate |-> gate,
      alive |-> e.alive,
      \* ofType(someActions.loadSomething), switchMap(...)
      request |-> IF gate # "running" THEN FALSE
                  ELSE IF action = "loadSomething" /\ e.alive THEN TRUE
                  ELSE e.request,
      answer |-> <<>>]

\* this.store.dispatch(action), for the actions the effects wait for.
DispatchToEffects(action) ==
  /\ fx' = [last |-> action,
            window |-> IF action = "loginSuccess" THEN TRUE
                       ELSE IF action = "logout" THEN FALSE
                       ELSE fx.window,
            SomeEffects |-> Receive("SomeEffects", fx.SomeEffects, action),
            OnRunEffects |-> Receive("OnRunEffects", fx.OnRunEffects, action)]
  /\ UNCHANGED nonFxVars

\* this.someApiService.load() answers: the effect dispatches what its inner
\* pipe delivers, and an error that leaves the inner pipe kills the effect.
someApiServiceResponds(class, ok) ==
  /\ fx[class].request
  /\ LET out == loadSomethingInner(Delivers(ok, "result", "error"))
         nexts == SelectSeq(out, LAMBDA n : n.kind = "next")
     IN fx' = [fx EXCEPT
                 !.last = nexts[Len(nexts)].value.type,
                 ![class] = [gate |-> fx[class].gate,
                             alive |-> fx[class].alive /\ ~HasError(out),
                             request |-> FALSE,
                             answer |-> <<[ok |-> ok,
                                           dispatched |->
                                             [i \in DOMAIN nexts |->
                                                nexts[i].value]]>>]]
  /\ UNCHANGED nonFxVars

NextEffects ==
  \/ \E action \in {"loginSuccess", "logout", "loadSomething"} :
       DispatchToEffects(action)
  \/ \E class \in EffectsClasses, ok \in BOOLEAN :
       someApiServiceResponds(class, ok)
  \/ \E page \in PageNumbers : loadPage(page)
  \/ \E version \in LoadPageVersions, ok \in BOOLEAN, items \in ItemLists :
       getMyItemsResponds(version, ok, items)
  \/ \E version \in LoadPageVersions, page \in PageNumbers :
       getMyItemsRespondsUnsubscribed(version, page)

----------------------------------------------------------------------------
(* Project structure: part_002                                             *)

MaxImports == 2

\* A library is the kind of library of a sub-domain (account/features/... is
\* the feature library of account), or a shared library.
Libraries ==
  [domain : {"auth", "account"},
   kind : {"domain", "feature", "api", "shell", "ui"}]
  \cup [domain : {"util", "styles"}, kind : {"shared"}]

AllowedSharedImportsApi(from, to) ==
  LET own == to.domain = from.domain
  IN \/ to.kind = "shared"
     \/ to.kind = "api" /\ ~own
     \/ own /\ from.kind = "api"
     \/ own /\ from.kind = "shell" /\ to.kind \in {"domain", "feature", "ui"}
     \/ own /\ from.kind \in {"feature", "ui"} /\ to.kind \in {"domain", "ui"}

\* Rules: what a library of each kind can import.
Allowed(from, to) ==
  LET own == to.domain = from.domain
      otherApi == to.kind = "api" /\ ~own
      shared == to.kind = "shared"
  IN CASE from.kind = "domain" -> otherApi \/ shared
       [] from.kind = "feature" ->
            (own /\ to.kind \in {"domain", "ui"}) \/ otherApi \/ shared
       [] from.kind = "api" -> own \/ otherApi \/ shared
       [] from.kind = "shell" ->
            (own /\ to.kind \in {"domain", "feature", "ui"})
            \/ otherApi \/ shared
       [] from.kind = "ui" ->
            (own /\ to.kind \in {"domain", "ui"}) \/ otherApi \/ shared
       [] from.kind = "shared" -> shared

ExampleFilesActionInAccount ==
  {[path |-> "account/features/dashboard/actions.ts",
    library |-> [domain |-> "account", kind |-> "feature"],
    imports |-> {}],
   [path |-> "auth/domain/auth.reducer.ts",
    library |-> [domain |-> "auth", kind |-> "domain"],
    imports |-> {[domain |-> "account", kind |-> "feature"]}],
   [path |-> "account/features/dashboard/user-dashboard.component.ts",
    library |-> [domain |-> "account", kind |-> "feature"],
    imports |-> {[domain |-> "auth", kind |-> "api"]}],
   [path |-> "auth/api/index.ts",
    library |-> [domain |-> "auth", kind |-> "api"],
    imports |-> {[domain |-> "auth", kind |-> "domain"]}]}

\* Cross-domain actions: the three files of the example, each with the
\* library it belongs to and the libraries of the project it imports from
\* ('@project-name/auth/domain' is the domain library of auth).
ExampleFiles ==
  {[path |-> "auth/domain/actions.ts",
    library |-> [domain |-> "auth", kind |-> "domain"],
    imports |-> {}],
   [path |-> "auth/api/index.ts",
    library |-> [domain |-> "auth", kind |-> "api"],
    imports |-> {[domain |-> "auth", kind |-> "domain"]}],
   [path |-> "account/features/dashboard/user-dashboard.component.ts",
    library |-> [domain |-> "account", kind |-> "feature"],
    imports |-> {[domain |-> "auth", kind |-> "api"]}]}

\* The imports of a set of files, as pairs <<importing library, imported>>.
ImportsOf(files) ==
  UNION {{<<f.library, to>> : to \in f.imports} : f \in files}

\* The libraries reachable from those of S along the imports E.
RECURSIVE Reachable(_, _)
Reachable(S, E) ==
  LET next == S \cup {e[2] : e \in {x \in E : x[1] \in S}}
  IN IF next = S THEN S ELSE Reachable(next, E)

\* Some library imports itself, directly or through others.
Circular(E) == \E e \in E : e[1] \in Reachable({e[2]}, E)

\* A file of the example is added to the workspace.
WriteExampleFile(f) ==
  /\ f.path \notin workspace.files
  /\ workspace' = [files |-> workspace.files \cup {f.path},
                   imports |-> workspace.imports \cup ImportsOf({f})]
  /\ UNCHANGED nonLibVars

\* Some library of the workspace starts importing another, within the Rules.
AddImport(from, to) ==
  /\ from # to
  /\ Allowed(from, to)
  /\ <<from, to>> \notin workspace.imports
  /\ Cardinality(workspace.imports \ ImportsOf(ExampleFiles)) < MaxImports
  /\ workspace' = [workspace EXCEPT !.imports = @ \cup {<<from, to>>}]
  /\ UNCHANGED nonLibVars

NextLibs ==
  \/ \E f \in ExampleFiles : WriteExampleFile(f)
  \/ \E from \in Libraries, to \in Libraries : AddImport(from, to)

----------------------------------------------------------------------------
(* Angular signals: a computed signal and an effect with a cleanup         *)

MaxCount == 2

MaxRuns == 3

Users == {"alice", "bob"}

\* The calculation function of conditionalCount: the value it returns and
\* the signals it reads on the way.
\* computed(() => { if (showCount()) { return `The count is ${count()}.`; }
\*                  else { return 'Nothing to see here!'; } })
conditionalCountCalculation(s) ==
  IF s.showCount
  THEN [value |-> [text |-> "The count is", count |-> <<s.count>>],
        reads |-> {"showCount", "count"}]
  ELSE [value |-> [text |-> "Nothing to see here!", count |-> <<>>],
        reads |-> {"showCount"}]

\* A signal changed: a computed signal that tracks it loses its cached value.
Invalidate(node, name) ==
  IF node.computed /\ name \in node.deps
  THEN [node EXCEPT !.dirty = TRUE, !.ran = "none"]
  ELSE [node EXCEPT !.ran = "none"]

ReadKeepsDependencies(node, s) ==
  IF node.dirty \/ ~node.computed
  THEN [value |-> conditionalCountCalculation(s).value,
        deps |-> node.deps \cup conditionalCountCalculation(s).reads,
        previous |-> node.deps,
        dirty |-> FALSE, computed |-> TRUE, ran |-> "calculated"]
  ELSE [node EXCEPT !.ran = "cached"]

\* Reading a computed signal: lazy (the first read calculates), memoized (a
\* later read returns the cached value unless a dependency changed), and the
\* signals read by the calculation replace the dependencies tracked so far.
Read(node, s) ==
  IF node.dirty \/ ~node.computed
  THEN [value |-> conditionalCountCalculation(s).value,
        deps |-> conditionalCountCalculation(s).reads,
        previous |-> node.deps,
        dirty |-> FALSE, computed |-> TRUE, ran |-> "calculated"]
  ELSE [node EXCEPT !.ran = "cached"]

\* A signal changed: a live effect that read it in its most recent run is
\* scheduled to run again.
Schedule(e, name) ==
  IF e.alive /\ name \in e.deps THEN [e EXCEPT !.scheduled = TRUE] ELSE e

\* showCount.set(value); setting a signal to the value it has notifies nobody.
showCountSet(value) ==
  /\ signals' = [signals EXCEPT !.showCount = value]
  /\ conditionalCount' = IF value # signals.showCount
                         THEN Invalidate(conditionalCount, "showCount")
                         ELSE [conditionalCount EXCEPT !.ran = "none"]
  /\ UNCHANGED timerEffect
  /\ UNCHANGED nonSignalVars

\* count.set(value)
countSet(value) ==
  /\ signals' = [signals EXCEPT !.count = value]
  /\ conditionalCount' = IF value # signals.count
                         THEN Invalidate(conditionalCount, "count")
                         ELSE [conditionalCount EXCEPT !.ran = "none"]
  /\ UNCHANGED timerEffect
  /\ UNCHANGED nonSignalVars

\* conditionalCount() is read.
conditionalCountRead ==
  /\ conditionalCount' = Read(conditionalCount, signals)
  /\ UNCHANGED <<signals, timerEffect>>
  /\ UNCHANGED nonSignalVars

\* currentUser.set(user)
currentUserSet(user) ==
  /\ signals' = [signals EXCEPT !.currentUser = user]
  /\ timerEffect' = IF user # signals.currentUser
                    THEN Schedule(timerEffect, "currentUser")
                    ELSE timerEffect
  /\ UNCHANGED conditionalCount
  /\ UNCHANGED nonSignalVars

RunCleanupSkipped(e) == [e EXCEPT !.cleanup = <<>>]

\* The callback registered with onCleanup is called, once:
\* onCleanup(() => { clearTimeout(timer); }). Clearing a timer that has
\* fired does nothing.
RunCleanup(e) ==
  IF e.cleanup = <<>> THEN e
  ELSE [e EXCEPT !.timers[e.cleanup[1]].status =
                    IF @ = "pending" THEN "cleared" ELSE @,
                 !.cleanup = <<>>]

\* The effect runs (it runs at least once, and again after a signal it read
\* has changed): the cleanup of the previous run is called, then the function
\* reads currentUser, starts a timer and registers the timer's cleanup.
effectRun ==
  /\ timerEffect.alive
  /\ timerEffect.scheduled
  /\ timerEffect.runs < MaxRuns
  /\ LET e == RunCleanup(timerEffect)
     IN timerEffect' =
          [e EXCEPT !.scheduled = FALSE,
                    !.deps = {"currentUser"},
                    !.runs = @ + 1,
                    !.timers = Append(@, [user |-> signals.currentUser,
                                          status |-> "pending"]),
                    !.cleanup = <<Len(e.timers) + 1>>]
  /\ UNCHANGED <<signals, conditionalCount>>
  /\ UNCHANGED nonSignalVars

\* One second after it was set, a timer that was not cleared calls its
\* callback: console.log(`1 second ago, the user became ${user}`).
timerFires(timer) ==
  /\ timer \in DOMAIN timerEffect.timers
  /\ timerEffect.timers[timer].status = "pending"
  /\ timerEffect' =
       [timerEffect EXCEPT
          !.timers[timer].status = "fired",
          !.log = Append(@, [timer |-> timer,
                             user |-> timerEffect.timers[timer].user])]
  /\ UNCHANGED <<signals, conditionalCount>>
  /\ UNCHANGED nonSignalVars

\* The effect is destroyed, with its enclosing context or by
\* EffectRef.destroy(): the cleanup of its last run is called.
destroy ==
  /\ timerEffect.alive
  /\ timerEffect' = [RunCleanup(timerEffect) EXCEPT !.alive = FALSE,
                                                    !.scheduled = FALSE]
  /\ UNCHANGED <<signals, conditionalCount>>
  /\ UNCHANGED nonSignalVars

NextSignals ==
  \/ \E value \in BOOLEAN : showCountSet(value)
  \/ \E value \in 0..MaxCount : countSet(value)
  \/ conditionalCountRead
  \/ \E user \in Users : currentUserSet(user)
  \/ effectRun
  \/ \E timer \in 1..MaxRuns : timerFires(timer)
  \/ destroy

----------------------------------------------------------------------------
(* Specifications                                                          *)

Init ==
  /\ loaded = {}
  /\ config = defineConfig
  /\ nav = <<>>
  /\ loc = NoLoc
  /\ via = "none"
  /\ heap = InitialHeap
  /\ store = initialState
  /\ replica = initialState
  /\ dispatched = <<>>
  /\ reduced = 0
  /\ delivered = 0
  /\ observed = <<>>
  /\ inFlight = NoCall
  /\ cs = constructorState
  /\ csCall = [method |-> "constructor", arg |-> constructorState]
  /\ csError = "none"
  /\ sel = NotSubscribed
  /\ step = Idle
  /\ csEffect = [subscribed |-> TRUE, page |-> 0, unsubscribed |-> {},
                 requested |-> 0, last |-> <<>>]
  /\ workspace = [files |-> {}, imports |-> {}]
  /\ myComponent = [created |-> FALSE]
  /\ signals = [showCount |-> FALSE, count |-> 0, currentUser |-> "alice"]
  /\ conditionalCount = [value |-> [text |-> "", count |-> <<>>],
                         deps |-> {}, previous |-> {},
                         dirty |-> FALSE, computed |-> FALSE, ran |-> "none"]
  /\ timerEffect = [alive |-> TRUE, scheduled |-> TRUE, deps |-> {},
                    runs |-> 0, cleanup |-> <<>>, timers |-> <<>>,
                    log |-> <<>>]
  /\ fx = [last |-> "none",
           window |-> FALSE,
           SomeEffects |-> [gate |-> "running", alive |-> TRUE,
                            request |-> FALSE, answer |-> <<>>],
           OnRunEffects |-> [gate |-> "waiting", alive |-> TRUE,
                             request |-> FALSE, answer |-> <<>>]]

Next ==
  \/ NextSite \/ NextStore \/ NextCS \/ NextUpdate \/ NextSel \/ NextLibs
  \/ NextEffects \/ NextSignals

SpecSite == Init /\ [][NextSite]_vars

SpecStore == Init /\ [][NextStore]_vars

SpecCS == Init /\ [][NextCS]_vars

SpecUpdate == Init /\ [][NextUpdate]_vars

SpecSel == Init /\ [][NextSel]_vars

SpecLibs == Init /\ [][NextLibs]_vars

SpecEffects == Init /\ [][NextEffects]_vars

SpecSignals == Init /\ [][NextSignals]_vars

Spec == Init /\ [][Next]_vars

----------------------------------------------------------------------------
(* Properties                                                              *)

\* C1: every link entry of the sidebar resolves to an existing content page:
\* whenever the reader has followed a sidebar entry, the page they are on
\* exists.
C1_SidebarLinksResolve == via = "sidebar" => PageExists(loc.route)

\* C2: every internal link of a content page resolves, relative to the page
\* that contains it, to an existing page and, when it has an anchor, to the
\* slug of a heading of that page: whenever the reader has followed a link of
\* a page, the page and the anchor they arrive at exist.
C2_ContentLinksResolve ==
  via = "content" => PageExists(loc.route) /\ AnchorExists(loc.route, loc.anchor)

\* C3: every content file the generator has read has exactly one front-matter
\* block, at the top of the file, defining title, description and template.
C3_OneFrontMatterBlock == \A f \in Pages : WellFormedFrontMatter(f)

\* C4 as stated: every rendered sidebar entry, at any depth, is a
\* {label, link} pair or a {label, autogenerate} entry, and has a label.
C4_OnlyLinkOrAutogenerate ==
  \A i \in 1..Len(nav) :
    nav[i].kind \in {"link", "autogenerate"} /\ "label" \in nav[i].keys

\* C4 as amended: every rendered sidebar entry, at any depth, is a
\* {label, link} pair, a {label, autogenerate} entry or a {label, items} group
\* of such entries, and has a label.
C4_LinkAutogenerateOrGroup ==
  \A i \in 1..Len(nav) :
    nav[i].kind \in {"link", "autogenerate", "group"} /\ "label" \in nav[i].keys

\* The whole sidebar is rendered: groups at depth 0, links nested in them.
C4_Witness ==
  /\ Len(nav) = Len(SidebarEntries)
  /\ \E i, j \in 1..Len(nav) :
       /\ nav[i].kind = "group" /\ nav[i].depth = 0
       /\ nav[j].kind = "link" /\ nav[j].depth = 1

\* C5: the mapping from content file to URL route under base /docs is
\* injective: no two different content files the generator has read have the
\* same URL, and every URL lies under the base.
C5_RoutesInjective ==
  \A f, g \in Pages :
    /\ SubSeq(Url(f), 1, Len(base)) = base
    /\ Url(f) = Url(g) => f = g

\* Every content file is read, the index file of a directory among them.
C5_Witness ==
  /\ loaded = FileNames
  /\ \E f, g \in Pages : f.name = "index" /\ g.name # "index" /\ g.dir = f.dir

\* "[Event Source] Event Name"
HasTypeFormat(type) ==
  \E s \in DefinedSources, e \in DefinedEvents : type = "[" \o s \o "] " \o e

\* C6: every action creator the documentation defines has a type of the form
\* "[Event Source] Event Name", and no two distinct creators share a type: of
\* the dispatched actions made by defined creators, two with the same type
\* were made by the same creator.
C6_ActionTypesUnique ==
  \A i, j \in 1..Len(dispatched) :
    LET a == dispatched[i]
        b == dispatched[j]
        defined == {c.creator : c \in DefinedCreators}
    IN (a.creator \in defined /\ b.creator \in defined)
         => /\ HasTypeFormat(a.type)
            /\ a.type = b.type => a.creator = b.creator

\* C7: after changeState(newState) the state of the store is newState.
C7_ChangeStateReplaces == csCall.method = "changeState" => cs = csCall.arg

\* C8: a step of gameReducer: player1Scored adds the points to player1 and
\* keeps player2, player2Scored adds them to player2 and keeps player1, reset
\* yields {player1: 0, player2: 0}, and any other action returns the state
\* value it was given.
C8_GameReducerSteps ==
  [][reduced' = reduced + 1 =>
       LET a == dispatched[reduced']
           s == heap[store.game]
           t == heap'[store'.game]
       IN IF a.type = player1Scored.type
          THEN t = [player1 |-> s.player1 + a.props.points, player2 |-> s.player2]
          ELSE IF a.type = player2Scored.type
          THEN t = [player1 |-> s.player1, player2 |-> s.player2 + a.props.points]
          ELSE IF a.type = reset.type
          THEN t = [player1 |-> 0, player2 |-> 0]
          ELSE store'.game = store.game /\ t = s]_vars

\* Both players have scored, a reset has followed, and the state is back at
\* the initial value.
C8_Witness ==
  /\ reduced = 3
  /\ dispatched[1].type = player1Scored.type
  /\ dispatched[2].type = player2Scored.type
  /\ dispatched[3].type = reset.type
  /\ heap[store.game] = [player1 |-> 0, player2 |-> 0]
  /\ Len(heap) = Len(InitialHeap) + 4

\* C9: the reducers are pure: two stores started from equal states and given
\* the same actions are in equal states after every step, and no step changes
\* a state value that already exists (a reducer returns a new object or one
\* it was given, and writes to neither).
C9_ReducersPure ==
  /\ [](Value(heap, store) = Value(heap, replica))
  /\ [][\A r \in DOMAIN heap : r \in DOMAIN heap' /\ heap'[r] = heap[r]]_vars

\* The game state and the auth state have both been replaced by new values.
C9_Witness ==
  /\ reduced >= 2
  /\ store.game # initialState.game
  /\ store.auth # initialState.auth
  /\ heap[store.game] # heap[initialState.game]
  /\ heap[store.auth] # heap[initialState.auth]

\* C10: effects run after the state has been updated: the effects have
\* received no action the reducers have not applied, and the state an effect
\* read while handling an action includes the reduction of that action.
C10_EffectsAfterReducers ==
  /\ delivered <= reduced
  /\ \A i \in 1..Len(observed) : observed[i].version >= observed[i].action

\* The effect has read the state for removeSelectedItems, and the action it
\* dispatched in response has itself been reduced and delivered to the effects.
C10_Witness ==
  /\ Len(observed) >= 1
  /\ \E n \in 1..delivered :
       /\ dispatched[n].type = removeSelectedItemsSuccess.type
       /\ n > observed[1].action

\* C15: the site holds no mutable runtime state: the configuration is a
\* constant. No build or navigation step changes the site URL, the base, the
\* integration list or the sidebar tree, and every evaluation of the
\* configuration yields the same sidebar entries in the same order.
C15_ConfigConstant ==
  /\ [](/\ config.site = site
        /\ config.base = base
        /\ [i \in DOMAIN config.integrations |-> config.integrations[i].name]
             = <<"starlight">>
        /\ Flatten(SidebarOf(config), 0) = SidebarEntries)
  /\ [][config' = config]_vars

\* The site has been built from the configuration and the reader has followed
\* a link of a page.
C15_Witness ==
  /\ Built
  /\ via = "content"
  /\ nav = Flatten(SidebarOf(config), 0)

\* C16: the three ways of writing changePageSize (setState with a function,
\* updater, patchState with an object) yield the same next state, in which
\* pageSize is the given value and myItems and totalItems are unchanged; and
\* removeItem written with updater and with patchState(fn) yield the same
\* next state.
C16_SameNextState ==
  [][/\ csCall'.method = "changePageSize" =>
          /\ cs' = changePageSizeBySetState(cs, csCall'.arg)
          /\ cs' = changePageSizeByUpdater(cs, csCall'.arg)
          /\ cs' = changePageSizeByPatchState(cs, csCall'.arg)
          /\ cs'.pageSize = csCall'.arg
          /\ cs'.myItems = cs.myItems
          /\ cs'.totalItems = cs.totalItems
     /\ csCall'.method = "removeItem" =>
          /\ cs' = removeItemByUpdater(cs, csCall'.arg)
          /\ cs' = removeItemByPatchState(cs, csCall'.arg)]_vars

\* The page size has been changed, and the patchState form of removeItem has
\* removed one of two items.
C16_Witness ==
  /\ csCall.method = "removeItem"
  /\ csCall.version = "patchState"
  /\ cs.pageSize = 20
  /\ cs.myItems = <<3 - csCall.arg>>
  /\ cs.totalItems = 1

\* C11: totalItems$ = select((state) => state.totalItems) emits its current
\* value on subscription and afterwards only when the value differs from the
\* one it emitted last: two consecutive emissions are never equal, and an
\* update that leaves totalItems as it was (one that changes only pageSize or
\* myItems) causes no emission.
C11_TotalItemsDistinct ==
  /\ [](Len(sel.totalItems) = 2 => sel.totalItems[1] # sel.totalItems[2])
  /\ [](step.kind = "subscribe" => step.totalItems = <<cs.totalItems>>)
  /\ [][step'.kind = "update" =>
          step'.totalItems = IF cs'.totalItems # cs.totalItems
                             THEN <<cs'.totalItems>>
                             ELSE <<>>]_vars

\* totalItems$ has emitted twice, and then an update of pageSize alone has
\* made it emit nothing.
C11_Witness ==
  /\ sel.subscribed
  /\ Len(sel.totalItems) = 2
  /\ step.kind = "update"
  /\ csCall.method = "changePageSize"
  /\ step.totalItems = <<>>

\* C12: with the state { totalItems: 100, pageSize: 10 }, changing pageSize
\* to 20 makes viewModel$ emit exactly two values, { 100, 20, pages: 10 } and
\* then { 100, 20, pages: 5 }; the debounced viewModel$ never emits the first
\* of them: every value it emits has pages = totalItems / pageSize.
C12_ViewModelEmissions ==
  /\ [][(/\ sel.subscribed
          /\ cs.totalItems = 100
          /\ cs.pageSize = 10
          /\ step'.kind = "update"
          /\ csCall'.method = "changePageSize"
          /\ csCall'.arg = 20)
        => step'.viewModel = <<ViewModel(100, 20, Quotient(100, 10)),
                               ViewModel(100, 20, Quotient(100, 20))>>]_vars
  /\ [](\A i \in DOMAIN step.debounced :
          step.debounced[i].pages = Quotient(step.debounced[i].totalItems,
                                             step.debounced[i].pageSize))

\* viewModel$ has just emitted the two values, and the debounced viewModel$
\* has an emission due.
C12_Witness ==
  /\ step.kind = "update"
  /\ step.viewModel = <<ViewModel(100, 20, <<10, 1>>),
                        ViewModel(100, 20, <<5, 1>>)>>
  /\ sel.pending

\* C20: the projector of pages$ = select(totalItems$, pageSize$, projector)
\* is called only when the value of totalItems$ or of pageSize$ changes (an
\* update that changes only myItems never calls it), whereas the function of
\* select((state) => state.totalItems / state.pageSize) runs on every state
\* change.
C20_ProjectorCalls ==
  [][step'.kind = "update" =>
       /\ step'.projector > 0 =>
            \/ cs'.totalItems # cs.totalItems
            \/ cs'.pageSize # cs.pageSize
       /\ step'.single = 1]_vars

\* A page of items has been loaded into the state of a store whose selectors
\* are subscribed to: the projector was not called, the single function was.
C20_Witness ==
  /\ sel.subscribed
  /\ step.kind = "update"
  /\ csCall.method = "getMyItems"
  /\ csEffect.last # <<>>
  /\ csEffect.last[1].items # <<>>
  /\ step.projector = 0
  /\ step.single = 1

\* C13: the createFeature definition of the game feature is equivalent to
\* the hand-written selectors: for every game state gameFeature.selectPlayer1,
\* selectPlayer2 and selectWinner return what selectPlayer1Score,
\* selectPlayer2Score and selectWinner of game.selectors.ts return, and
\* selectWinner is total: 'player 1' exactly when player1 > player2,
\* 'player 2' exactly when player1 < player2, 'draw' exactly when equal.
C13_FeatureSelectors ==
  LET state == Value(heap, store)
      game == state.game
  IN /\ gameFeature("selectGameState", state) = selectGameState(state)
     /\ gameFeature("selectPlayer1", state) = selectPlayer1Score(state)
     /\ gameFeature("selectPlayer2", state) = selectPlayer2Score(state)
     /\ gameFeature("selectWinner", state) = selectWinner(state)
     /\ selectPlayer1Score(state) = game.player1
     /\ selectPlayer2Score(state) = game.player2
     /\ selectWinner(state) \in {"player 1", "player 2", "draw"}
     /\ selectWinner(state) = "player 1" <=> game.player1 > game.player2
     /\ selectWinner(state) = "player 2" <=> game.player1 < game.player2
     /\ selectWinner(state) = "draw" <=> game.player1 = game.player2

\* Both players have scored and player 2 leads.
C13_Witness ==
  /\ Value(heap, store).game.player1 > 0
  /\ gameFeature("selectWinner", Value(heap, store)) = "player 2"

\* C14: in the documented cross-domain action example (auth/domain/actions.ts,
\* auth/api/index.ts, account/features/dashboard/user-dashboard.component.ts)
\* every import is one the Rules allow for the kind of the importing library,
\* and the import graph of the example has no cycle.
C14_ExampleImports ==
  LET written == {f \in ExampleFiles : f.path \in workspace.files}
  IN /\ \A e \in ImportsOf(written) : Allowed(e[1], e[2])
     /\ ~Circular(ImportsOf(written))
     /\ \A e \in workspace.imports : Allowed(e[1], e[2])

\* The files of the example have all been written.
C14_Witness ==
  /\ workspace.files = {f.path : f \in ExampleFiles}
  /\ ImportsOf(ExampleFiles) \subseteq workspace.imports
  /\ Cardinality(ImportsOf(ExampleFiles)) = 2

\* C17: in the OnRunEffects example the effects of the class run exactly
\* inside the windows opened by authActions.loginSuccess and closed by the
\* next authActions.logout: they do not run before the first loginSuccess or
\* between a logout and the next loginSuccess, and a loginSuccess dispatched
\* outside a window (the first one, or one after a logout) starts them.
C17_EffectsRunInWindows ==
  /\ (fx.OnRunEffects.gate = "running") <=> fx.window
  /\ fx.OnRunEffects.request => fx.window

C19_TapResponseSame ==
  \A i \in DOMAIN csEffect.last :
    LET answer == csEffect.last[i]
        response == Delivers(answer.ok, answer.items, "HttpErrorResponse")
    IN /\ loadPageInner("tapResponse", response)
            = loadPageInner("catchError", response)
       /\ answer.calls = loadPageInner("catchError", response).calls
       /\ answer.out = loadPageInner("tapResponse", response).out
       /\ Len(answer.calls) = 1
       /\ csEffect.subscribed

\* The tapResponse form has had a request fail after items had been loaded.
C19_Witness ==
  /\ csEffect.last # <<>>
  /\ csEffect.last[1].version = "tapResponse"
  /\ ~csEffect.last[1].ok
  /\ cs.myItems # <<>>
  /\ csEffect.subscribed

\* C25: removeItem(itemId) keeps totalItems consistent with the removal from
\* myItems: the call lowers totalItems by exactly the number of items it
\* removed from myItems (by 0 when no item has that id), and totalItems is
\* never negative after removeItem calls.
C25_TotalItemsConsistent ==
  /\ [][csCall'.method = "removeItem" =>
          cs.totalItems - cs'.totalItems
            = Len(cs.myItems) - Len(cs'.myItems)]_vars
  /\ [](csCall.method \in {"constructor", "removeItem"} => cs.totalItems >= 0)

\* C21: an updater called with an observable applies the update function
\* for each emitted value: with changePageSize(someExternalPageSize$)
\* interleaved in any order with direct calls, after every step pageSize is
\* the value of the most recent emission or call (none is dropped), and
\* myItems and totalItems are unchanged by it.
C21_UpdaterObservable ==
  /\ [](csCall.method = "changePageSize" => cs.pageSize = csCall.arg)
  /\ [][csCall'.method = "changePageSize" =>
          /\ cs'.myItems = cs.myItems
          /\ cs'.totalItems = cs.totalItems]_vars

\* The observable has delivered a page size other than the initial one to a
\* store that holds items.
C21_Witness ==
  /\ myComponent.created
  /\ "from" \in DOMAIN csCall
  /\ cs.pageSize = 20
  /\ cs.myItems # <<>>

\* C24: loadPage's switchMap drops the earlier request: the answer to a
\* superseded request is never written by patchState, and once the requests
\* have all been answered successfully, myItems holds the answer to the page
\* requested last.
C24_SwitchMapDropsEarlier ==
  /\ [][csCall'.method = "getMyItemsUnsubscribed" => cs' = cs]_vars
  /\ []((/\ csEffect.page = 0
         /\ csEffect.last # <<>>
         /\ csEffect.last[1].ok)
          => /\ csEffect.last[1].page = csEffect.requested
             /\ cs.myItems = csEffect.last[1].items)

\* Page 1 was requested, then page 2; page 2 was answered with items and the
\* late answer to page 1 has arrived since.
C24_Witness ==
  /\ csCall.method = "getMyItemsUnsubscribed"
  /\ csCall.arg = 1
  /\ csEffect.requested = 2
  /\ csEffect.page = 0
  /\ csEffect.last # <<>>
  /\ csEffect.last[1].ok
  /\ csEffect.last[1].items # <<>>
  /\ cs.myItems = csEffect.last[1].items

\* C26: an import graph in which every import satisfies the Rules has no
\* circular imports, neither inside one sub-domain nor across two sub-domains
\* through their api libraries.
C26_NoCircularImports == ~Circular(workspace.imports)

\* C27: under the Rules a shared library never depends, directly or through
\* a chain of imports, on a domain, feature, api, shell or ui library: every
\* library reachable from a shared library is a shared library.
C27_SharedReachesShared ==
  \A s \in {l \in Libraries : l.kind = "shared"} :
    \A l \in Reachable({s}, workspace.imports) : l.kind = "shared"

\* A shared library imports another shared library, which a library of a
\* sub-domain imports too, next to the imports of the example.
C27_Witness ==
  /\ <<[domain |-> "util", kind |-> "shared"],
       [domain |-> "styles", kind |-> "shared"]>> \in workspace.imports
  /\ \E e \in workspace.imports :
       e[1].kind # "shared" /\ e[2] = [domain |-> "styles", kind |-> "shared"]
  /\ ImportsOf(ExampleFiles) \subseteq workspace.imports

\* C29: the sidebar maps labels to routes without ambiguity: no two link
\* entries of the whole sidebar have the same link, no two entries of the
\* same group have the same label, and no two groups have the same label.
C29_SidebarUnambiguous ==
  LET Parent(i) ==
        IF \E j \in 1..(i - 1) : nav[j].depth = nav[i].depth - 1
        THEN CHOOSE j \in 1..(i - 1) :
               /\ nav[j].depth = nav[i].depth - 1
               /\ \A k \in (j + 1)..(i - 1) : nav[k].depth # nav[i].depth - 1
        ELSE 0
  IN \A i \in DOMAIN nav : \A j \in DOMAIN nav :
       i # j =>
         /\ (nav[i].kind = "link" /\ nav[j].kind = "link")
              => nav[i].link # nav[j].link
         /\ (nav[i].depth = nav[j].depth /\ Parent(i) = Parent(j))
              => nav[i].label # nav[j].label
         /\ (nav[i].kind = "group" /\ nav[j].kind = "group")
              => nav[i].label # nav[j].label

\* The whole sidebar is rendered, and it has two link entries with the same
\* label in different groups, leading to different pages.
C29_Witness ==
  /\ Built
  /\ nav = Flatten(SidebarOf(config), 0)
  /\ \E i \in DOMAIN nav : \E j \in DOMAIN nav :
       /\ i # j
       /\ nav[i].kind = "link" /\ nav[j].kind = "link"
       /\ nav[i].label = nav[j].label
       /\ nav[i].link # nav[j].link

\* C28: every content page of the site can be reached by navigation: for
\* each page there is a sequence of clicks that starts at a sidebar entry
\* and follows sidebar links and in-content links to it.
C28_EveryPageNavigable ==
  LET entries == {nav[i] : i \in DOMAIN nav}
      fromSidebar == {Resolve(config.base, e.link) :
                        e \in {x \in entries : x.kind = "link"}}
      clicks == UNION {{<<Url(f), Resolve(Url(f), l.path)>> : l \in f.links} :
                         f \in Pages}
  IN Built => \A f \in Pages : Url(f) \in Reachable(fromSidebar, clicks)

\* C22: a computed signal tracks only the signals read in its most recent
\* calculation: a read returns the value of the calculation on the current
\* signals; while the last calculation took the branch of showCount false, a
\* change of count neither invalidates nor recomputes conditionalCount; once
\* it took the branch of showCount true, a change of count invalidates the
\* cached value; and after a calculation with showCount false again, count
\* is no longer a dependency.
C22_ComputedDependencies ==
  /\ [](conditionalCount.ran # "none" =>
          conditionalCount.value = conditionalCountCalculation(signals).value)
  /\ [](conditionalCount.computed =>
          (("count" \in conditionalCount.deps)
             <=> conditionalCount.value.text = "The count is"))
  /\ [][(/\ signals'.count # signals.count
          /\ conditionalCount.computed
          /\ conditionalCount.value.text = "Nothing to see here!")
         => /\ conditionalCount'.dirty = conditionalCount.dirty
            /\ conditionalCount'.value = conditionalCount.value]_vars
  /\ [][(/\ signals'.count # signals.count
          /\ conditionalCount.computed
          /\ conditionalCount.value.text = "The count is")
         => conditionalCount'.dirty]_vars

\* conditionalCount was calculated with showCount true, then with showCount
\* false; count has changed since and the cached value is still valid.
C22_Witness ==
  /\ conditionalCount.computed
  /\ conditionalCount.previous = {"showCount", "count"}
  /\ conditionalCount.deps = {"showCount"}
  /\ conditionalCount.ran = "cached"
  /\ signals.count = MaxCount
  /\ ~conditionalCount.dirty

\* C23: the callback registered with onCleanup by a run of the effect is
\* called before the next run begins and when the effect is destroyed: at
\* most one timer is pending at any time, none is pending once the effect is
\* destroyed, and a timer logs only while the run that created it is the
\* latest run of a live effect.
C23_EffectCleanup ==
  /\ [](Cardinality({t \in DOMAIN timerEffect.timers :
                       timerEffect.timers[t].status = "pending"}) <= 1)
  /\ [](~timerEffect.alive =>
          \A t \in DOMAIN timerEffect.timers :
            timerEffect.timers[t].status # "pending")
  /\ [][Len(timerEffect'.log) > Len(timerEffect.log) =>
          /\ timerEffect.alive
          /\ timerEffect'.log[Len(timerEffect'.log)].timer
               = Len(timerEffect.timers)]_vars

\* The timer of the first run was cleared by the second run, the timer of
\* the second run has logged, and the timer of the third run was cleared
\* when the effect was destroyed.
C23_Witness ==
  /\ ~timerEffect.alive
  /\ Len(timerEffect.timers) = 3
  /\ timerEffect.timers[1].status = "cleared"
  /\ timerEffect.timers[2].status = "fired"
  /\ timerEffect.timers[3].status = "cleared"
  /\ Len(timerEffect.log) = 1

====
